---- MODULE Spec2Model ----
(***************************************************************************)
(* Assignment platform: the Express/SQLite server (src/public/app.js from  *)
(* line 1480) and the in-browser simulation layer DatabaseEngine +         *)
(* APIService + AppState (src/public/app.js up to line 1479).  The two are *)
(* separate programs that never talk to each other; a behaviour is an      *)
(* execution of one of them, chosen by the variable program.               *)
(***************************************************************************)
EXTENDS Integers, Sequences, FiniteSets, Bags, TLC

\* ------------------------------------------------------------------ bounds
\* the clock runs over 0..MaxTime
MaxTime == 1
\* statements that change a table (insert, update, delete) in one behaviour
MaxWrites == 2
\* APIService calls whose setTimeout has not fired yet. A call reads nothing when it
\* is issued, so one pending call at a time already reaches every order of callbacks
MaxTimers == 1

\* days of deadlines and of instants of rendering
MaxDays == 4

\* event streams open at a time
MaxStreams == 3

\* login and logout calls whose setTimeout has not fired yet, where the order of the
\* calls and of the callbacks is followed
MaxPending == 2

\* ------------------------------------------------------------------ data
Clients == {"c1"}

\* what a body field or a session holds when it was never set (undefined)
Missing == -1

\* passwords a client may type, as the code points of their characters: 'password123',
\* 'wrong', 'p' followed by the euro sign (outside Latin-1), and the empty text
Password123 == <<112, 97, 115, 115, 119, 111, 114, 100, 49, 50, 51>>
WrongPassword == <<119, 114, 111, 110, 103>>
EuroPassword == <<112, 8364>>
NoPassword == <<>>

\* rows of the users table; prof2 is a provisioned row next to the sample rows
users ==
  [u \in {"prof1", "prof2", "stud1", "stud2"} |->
     [id |-> u,
      email |-> CASE u = "prof1" -> "prof.smith@university.edu"
                  [] u = "prof2" -> "prof.jones@university.edu"
                  [] u = "stud1" -> "john.doe@university.edu"
                  [] u = "stud2" -> "jane.smith@university.edu",
      password_hash |-> <<"$2b$10$", Password123>>,
      name |-> CASE u = "prof1" -> "Dr. Sarah Smith"
                 [] u = "prof2" -> "Dr. Alan Jones"
                 [] u = "stud1" -> "John Doe"
                 [] u = "stud2" -> "Jane Smith",
      role |-> IF u \in {"prof1", "prof2"} THEN "professor" ELSE "student"]]

UserIds == DOMAIN users

NoUser == [id |-> "", email |-> "", password_hash |-> <<>>, name |-> "", role |-> ""]

\* db.get('SELECT * FROM users WHERE email = ?'): the row, or no row
UserByEmail(email) ==
  IF \E u \in UserIds : users[u].email = email
  THEN users[CHOOSE u \in UserIds : users[u].email = email]
  ELSE NoUser

\* bcrypt.compare(password, hash): the hash was made from that password
bcryptCompare(password, hash) == hash = <<"$2b$10$", password>>

\* repository links a client may send, as the parts of their text: the scheme with
\* "://", the host, then the path; NoLink is a missing or empty repoLink
NoLink == <<>>
GithubY == <<"https://", "github.com", "/s/y">>
GithubDeep == <<"https://", "github.com", "/s/y", "/tree/main/src">>
GitlabX == <<"https://", "gitlab.com", "/s/x">>
EvilGithub == <<"https://", "evil.com", "/", "github.com">>
NotAUrl == <<"github.com", "/s/y">>
SeedLink == <<"https://", "github.com", "/johndoe/web-dev-project">>

\* new URL(link) does not throw: the text starts with a scheme and names a host
IsWellFormedURL(link) == Len(link) >= 2 /\ link[1] \in {"https://", "http://"}

\* new URL(link).host
Host(link) == IF IsWellFormedURL(link) THEN link[2] ELSE ""

\* link.includes('github.com'): the text holds github.com anywhere
IncludesGithub(link) == \E i \in DOMAIN link : link[i] = "github.com"

\* request bodies of POST /api/assignments and PUT /api/assignments/:id
Bodies ==
  { [title |-> "T1", description |-> "D1", deadline |-> 1, instructions |-> "I1"],
    [title |-> "T2", description |-> "D2", deadline |-> 0, instructions |-> "I2"],
    [title |-> "", description |-> "D1", deadline |-> 1, instructions |-> "I1"],
    [title |-> "T1", description |-> "D1", deadline |-> Missing, instructions |-> "I1"] }

\* ------------------------------------------------------------------ state
VARIABLES
  program,        \* "server" or "browser": which program this behaviour runs
  now,            \* the wall clock (new Date(), CURRENT_TIMESTAMP)
  writes,         \* table-changing statements executed so far
  assignments,    \* rows of the assignments table, in rowid order
  submissions,    \* rows of the submissions table, in rowid order
  nextAssignment, \* the next fresh assignment id (uuidv4, 'id_' + Date.now() + ...)
  \* server
  session,        \* client -> req.session (userId, userRole)
  inflight,       \* bag of POST /api/submissions past the lookup, before the write
  response,       \* the last response sent
  \* browser (assignments, submissions are then DatabaseEngine.tables)
  indexes,        \* DatabaseEngine.indexes
  currentSession, \* APIService.currentSession
  timers,         \* bag of APIService calls whose setTimeout has not fired
  settled,        \* the last promise settled, or the last form refusal
  eventListeners, \* DatabaseEngine.eventListeners, in the order of registration
  events,         \* the timeouts of triggerEvent and broadcastUpdate, in the order due
  realtime,       \* detail of the last 'realtime_update' event dispatched on window
  lastChange,     \* the last record created or updated, with the event triggered for it
  appState,       \* AppState.currentUser and AppState.currentRole
  stale,          \* bag of the calls issued before the last logout resolved, not yet fired
  rendered,       \* the last deadline rendered: formatDeadline and isOverdue of it
  \* server, the stream route
  sseClients,     \* global.sseClients, in the order of the pushes
  connections     \* the open requests of /api/submissions/stream, each with its clientId

vars == <<program, now, writes, session, assignments, submissions,
          nextAssignment, inflight, response, indexes, currentSession, timers, settled,
          eventListeners, events, realtime, lastChange, appState, stale, rendered,
          sseClients, connections>>

streamVars == <<sseClients, connections>>
serverVars == <<session, inflight, response, streamVars>>
notifyVars == <<eventListeners, events, realtime, lastChange>>
pageVars == <<appState, stale, rendered>>
browserVars == <<indexes, currentSession, timers, settled, notifyVars, pageVars>>

NoSession == [userId |-> "", userRole |-> ""]

\* insertSampleData: the sample assignments and the sample submission
sampleAssignments ==
  << [id |-> 1, title |-> "Web Development Project", description |-> "D",
      deadline |-> 0, instructions |-> "I", created_by |-> "prof1", created_at |-> 0],
     [id |-> 2, title |-> "Database Design Assignment", description |-> "D",
      deadline |-> 1, instructions |-> "I", created_by |-> "prof1", created_at |-> 0] >>

\* DatabaseEngine.insertSampleData: the same two assignments, assign1 created two days
\* before assign2 and both before the page was loaded
tablesAssignments ==
  [i \in DOMAIN sampleAssignments |-> [sampleAssignments[i] EXCEPT !.created_at = i - 3]]

sampleSubmissions ==
  << [id |-> 1, assignment_id |-> 1, student_id |-> "stud1", repo_link |-> SeedLink,
      submitted_at |-> 0, status |-> "submitted"] >>

\* createIndexes over the sample rows; an index of submissions holds references to
\* the row objects (their ids here), an index of assignments the row objects
createIndexes ==
  [assignments_created_by |-> ("prof1" :> tablesAssignments),
   submissions_assignment_id |-> (1 :> <<1>>),
   submissions_student_id |-> ("stud1" :> <<1>>)]

\* APIService.currentSession when there is none
Null == [userId |-> "", user |-> NoUser]

\* APIService.setupEventListeners: the two listeners the constructor registers, each
\* of which calls broadcastUpdate with the name of its event
setupEventListeners ==
  << [event |-> "assignment_created", callback |-> "broadcastUpdate"],
     [event |-> "submission_created", callback |-> "broadcastUpdate"] >>

\* db.addEventListener called by a script of the page after construction: for each of
\* the two events a callback that throws, then one more that calls broadcastUpdate
pageListeners ==
  << [event |-> "assignment_created", callback |-> "throws"],
     [event |-> "assignment_created", callback |-> "broadcastUpdate"],
     [event |-> "submission_created", callback |-> "throws"],
     [event |-> "submission_created", callback |-> "broadcastUpdate"] >>

\* AppState after its constructor and after logout: currentUser = null, currentRole = null
NoAppState == [currentUser |-> NoUser, currentRole |-> ""]

\* no deadline rendered yet
NoRender == [deadline |-> 0, at |-> 0, text |-> <<>>, overdue |-> FALSE]

\* no event yet
NoEvent == [type |-> "", data |-> <<>>]

\* no timeout of a notification is waiting. The timeouts of triggerEvent (0 ms) and of
\* broadcastUpdate (100 ms) are due before any call of APIService issued after them
\* (whose latency is 150 ms at least), and they read and write nothing another step
\* does: the other steps are taken once they have run
NoTimeoutDue == events = <<>>

\* ------------------------------------------------------------------ helpers
\* stable insertion of row r into a sequence ordered by key descending
RECURSIVE InsertDesc(_, _, _)
InsertDesc(r, sorted, key) ==
  IF sorted = <<>> THEN <<r>>
  ELSE IF r[key] > Head(sorted)[key] THEN <<r>> \o sorted
  ELSE <<Head(sorted)>> \o InsertDesc(r, Tail(sorted), key)

\* ORDER BY key DESC (rows with equal keys keep their rowid order)
RECURSIVE OrderByDesc(_, _)
OrderByDesc(rows, key) ==
  IF rows = <<>> THEN <<>>
  ELSE InsertDesc(Head(rows), OrderByDesc(Tail(rows), key), key)

\* res.status(status).json(...): the response, with the request it answers
Respond(op, s, status, error, rows) ==
  response' = [op |-> op, userId |-> s.userId, status |-> status, error |-> error,
               rows |-> rows]

\* ------------------------------------------------------------------ middleware
\* requireAuth: the error it answers with, "" when it calls next()
requireAuth(s) ==
  IF s.userId = "" THEN [status |-> 401, error |-> "Authentication required"]
  ELSE [status |-> 0, error |-> ""]

\* requireRole(role)
requireRole(role, s) ==
  IF s.userId = "" THEN [status |-> 401, error |-> "Authentication required"]
  ELSE IF s.userRole # role THEN [status |-> 403, error |-> "Insufficient permissions"]
  ELSE [status |-> 0, error |-> ""]

\* ------------------------------------------------------------------ SQL
\* the statements not yet executed that will change a table
Budget == writes + BagCardinality(inflight) < MaxWrites

\* a.* with u.name as creator_name, FROM assignments a JOIN users u ON a.created_by = u.id
JoinCreator(rows) ==
  [i \in DOMAIN SelectSeq(rows, LAMBDA a : a.created_by \in UserIds) |->
     LET a == SelectSeq(rows, LAMBDA r : r.created_by \in UserIds)[i]
     IN [id |-> a.id, title |-> a.title, description |-> a.description,
         deadline |-> a.deadline, instructions |-> a.instructions,
         created_by |-> a.created_by, created_at |-> a.created_at,
         creator_name |-> users[a.created_by].name]]

\* the UPDATE with WHERE created_by = ? alone
SqlUpdateAllOwned(rows, id, userId, body) ==
  [rows |-> [i \in DOMAIN rows |->
                IF rows[i].created_by = userId
                THEN [rows[i] EXCEPT !.title = body.title,
                                     !.description = body.description,
                                     !.deadline = body.deadline,
                                     !.instructions = body.instructions]
                ELSE rows[i]],
   changes |-> Cardinality({i \in DOMAIN rows : rows[i].created_by = userId})]

\* UPDATE assignments SET ... WHERE id = ? AND created_by = ?
SqlUpdateAssignment(rows, id, userId, body) ==
  [rows |-> [i \in DOMAIN rows |->
                IF rows[i].id = id /\ rows[i].created_by = userId
                THEN [rows[i] EXCEPT !.title = body.title,
                                     !.description = body.description,
                                     !.deadline = body.deadline,
                                     !.instructions = body.instructions]
                ELSE rows[i]],
   changes |-> Cardinality({i \in DOMAIN rows :
                              rows[i].id = id /\ rows[i].created_by = userId})]

\* the DELETE with WHERE id = ? alone
SqlDeleteAnyOwner(rows, id, userId) ==
  [rows |-> SelectSeq(rows, LAMBDA a : a.id # id),
   changes |-> Cardinality({i \in DOMAIN rows : rows[i].id = id})]

\* DELETE FROM assignments WHERE id = ? AND created_by = ?
SqlDeleteAssignment(rows, id, userId) ==
  [rows |-> SelectSeq(rows, LAMBDA a : ~(a.id = id /\ a.created_by = userId)),
   changes |-> Cardinality({i \in DOMAIN rows :
                              rows[i].id = id /\ rows[i].created_by = userId})]

\* the rows of submissions a DELETE FROM assignments leaves: the connection never
\* sets PRAGMA foreign_keys, so the FOREIGN KEY clauses are not enforced
SqlForeignKeyAction(subs, id) == subs

\* the upsert with repo_link left out of DO UPDATE SET
SqlUpsertKeepsLink(rows, id, assignment_id, student_id, repo_link, at) ==
  IF \E i \in DOMAIN rows :
       rows[i].assignment_id = assignment_id /\ rows[i].student_id = student_id
  THEN [rows |-> [i \in DOMAIN rows |->
                    IF rows[i].assignment_id = assignment_id
                       /\ rows[i].student_id = student_id
                    THEN [rows[i] EXCEPT !.submitted_at = at]
                    ELSE rows[i]],
        err |-> ""]
  ELSE [rows |-> Append(rows, [id |-> id, assignment_id |-> assignment_id,
                               student_id |-> student_id, repo_link |-> repo_link,
                               submitted_at |-> at, status |-> "submitted"]),
        err |-> ""]

\* a plain INSERT, without the ON CONFLICT clause, under UNIQUE(assignment_id, student_id)
SqlInsertOnly(rows, id, assignment_id, student_id, repo_link, at) ==
  IF \E i \in DOMAIN rows :
       rows[i].assignment_id = assignment_id /\ rows[i].student_id = student_id
  THEN [rows |-> rows, err |-> "SQLITE_CONSTRAINT: UNIQUE constraint failed"]
  ELSE [rows |-> Append(rows, [id |-> id, assignment_id |-> assignment_id,
                               student_id |-> student_id, repo_link |-> repo_link,
                               submitted_at |-> at, status |-> "submitted"]),
        err |-> ""]

\* the upsert with ON CONFLICT(assignment_id): the row of any student for the
\* assignment is the one updated
SqlUpsertAnyStudent(rows, id, assignment_id, student_id, repo_link, at) ==
  IF \E i \in DOMAIN rows : rows[i].assignment_id = assignment_id
  THEN [rows |-> [i \in DOMAIN rows |->
                    IF rows[i].assignment_id = assignment_id
                    THEN [rows[i] EXCEPT !.repo_link = repo_link, !.submitted_at = at]
                    ELSE rows[i]],
        err |-> ""]
  ELSE [rows |-> Append(rows, [id |-> id, assignment_id |-> assignment_id,
                               student_id |-> student_id, repo_link |-> repo_link,
                               submitted_at |-> at, status |-> "submitted"]),
        err |-> ""]

\* INSERT OR REPLACE: the conflicting row is deleted and the new row, with its new id,
\* is inserted
SqlReplaceSubmission(rows, id, assignment_id, student_id, repo_link, at) ==
  [rows |-> Append(SelectSeq(rows, LAMBDA r : ~(r.assignment_id = assignment_id
                                                /\ r.student_id = student_id)),
                   [id |-> id, assignment_id |-> assignment_id,
                    student_id |-> student_id, repo_link |-> repo_link,
                    submitted_at |-> at, status |-> "submitted"]),
   err |-> ""]

\* INSERT INTO submissions ... ON CONFLICT(assignment_id, student_id) DO UPDATE SET
\* repo_link = excluded.repo_link, submitted_at = CURRENT_TIMESTAMP
SqlUpsertSubmission(rows, id, assignment_id, student_id, repo_link, at) ==
  IF \E i \in DOMAIN rows :
       rows[i].assignment_id = assignment_id /\ rows[i].student_id = student_id
  THEN [rows |-> [i \in DOMAIN rows |->
                    IF rows[i].assignment_id = assignment_id
                       /\ rows[i].student_id = student_id
                    THEN [rows[i] EXCEPT !.repo_link = repo_link, !.submitted_at = at]
                    ELSE rows[i]],
        err |-> ""]
  ELSE [rows |-> Append(rows, [id |-> id, assignment_id |-> assignment_id,
                               student_id |-> student_id, repo_link |-> repo_link,
                               submitted_at |-> at, status |-> "submitted"]),
        err |-> ""]

\* ------------------------------------------------------------------ server
Constructed(listeners) ==
  /\ program \in {"server", "browser"}
  /\ now = 0
  /\ writes = 0
  /\ session = [c \in Clients |-> NoSession]
  /\ assignments = IF program = "browser" THEN tablesAssignments ELSE sampleAssignments
  /\ submissions = sampleSubmissions
  /\ nextAssignment = 3
  /\ inflight = EmptyBag
  /\ response = [op |-> "", userId |-> "", status |-> 0, error |-> "", rows |-> <<>>]
  /\ indexes = createIndexes
  /\ currentSession = Null
  /\ timers = EmptyBag
  /\ settled = [call |-> "", outcome |-> "", error |-> "", rows |-> <<>>]
  /\ eventListeners = listeners
  /\ events = <<>>
  /\ realtime = NoEvent
  /\ lastChange = NoEvent
  /\ appState = NoAppState
  /\ stale = EmptyBag
  /\ rendered = NoRender
  /\ sseClients = <<>>
  /\ connections = {}

\* the state after new DatabaseEngine(), new APIService(db) and new AppState()
Init == Constructed(setupEventListeners)

\* time passes
Tick ==
  /\ now < MaxTime
  /\ NoTimeoutDue
  /\ now' = now + 1
  /\ UNCHANGED <<program, writes, assignments, submissions, nextAssignment>>
  /\ UNCHANGED <<serverVars, browserVars>>

\* app.post('/api/auth/login')
Login(c, email, password) ==
  /\ program = "server"
  /\ LET user == UserByEmail(email) IN
     IF email = "" \/ password = NoPassword
     THEN /\ Respond("POST /api/auth/login", session[c], 400,
                     "Email and password are required", <<>>)
          /\ UNCHANGED session
     ELSE IF user = NoUser \/ ~bcryptCompare(password, user.password_hash)
     THEN /\ Respond("POST /api/auth/login", session[c], 401,
                     "Invalid credentials", <<>>)
          /\ UNCHANGED session
     ELSE /\ session' = [session EXCEPT ![c] = [userId |-> user.id, userRole |-> user.role]]
          /\ Respond("POST /api/auth/login", session'[c], 200, "",
                     << [id |-> user.id, email |-> user.email, name |-> user.name,
                         role |-> user.role] >>)
  /\ UNCHANGED <<program, now, writes, assignments, submissions, nextAssignment, inflight>>
  /\ UNCHANGED <<browserVars, streamVars>>

\* a logout behind requireAuth
LogoutRequiresSession(c) ==
  /\ program = "server"
  /\ session' = [session EXCEPT ![c] = NoSession]
  /\ IF session[c] = NoSession
     THEN Respond("POST /api/auth/logout", NoSession, 401, "Authentication required", <<>>)
     ELSE Respond("POST /api/auth/logout", NoSession, 200, "", <<>>)
  /\ UNCHANGED <<program, now, writes, assignments, submissions, nextAssignment, inflight>>
  /\ UNCHANGED <<browserVars, streamVars>>

\* app.post('/api/auth/logout')
Logout(c) ==
  /\ program = "server"
  /\ session' = [session EXCEPT ![c] = NoSession]
  /\ Respond("POST /api/auth/logout", NoSession, 200, "", <<>>)
  /\ UNCHANGED <<program, now, writes, assignments, submissions, nextAssignment, inflight>>
  /\ UNCHANGED <<browserVars, streamVars>>

\* the rows GET /api/assignments answers with
ListAssignments(s) == OrderByDesc(JoinCreator(assignments), "created_at")

\* app.get('/api/assignments')
GetAssignments(c) ==
  /\ program = "server"
  /\ LET gate == requireAuth(session[c]) IN
     IF gate.status # 0
     THEN Respond("GET /api/assignments", session[c], gate.status, gate.error, <<>>)
     ELSE Respond("GET /api/assignments", session[c], 200, "",
                  ListAssignments(session[c]))
  /\ UNCHANGED <<program, now, writes, session, assignments, submissions,
                 nextAssignment, inflight>>
  /\ UNCHANGED <<browserVars, streamVars>>

\* app.post('/api/assignments')
PostAssignment(c, body) ==
  /\ program = "server"
  /\ LET gate == requireRole("professor", session[c])
         row == [id |-> nextAssignment, title |-> body.title,
                 description |-> body.description, deadline |-> body.deadline,
                 instructions |-> body.instructions,
                 created_by |-> session[c].userId, created_at |-> now]
     IN
     IF gate.status # 0
     THEN /\ Respond("POST /api/assignments", session[c], gate.status,
                     gate.error, <<>>)
          /\ UNCHANGED <<assignments, nextAssignment, writes>>
     ELSE IF body.title = "" \/ body.deadline = Missing
     THEN /\ Respond("POST /api/assignments", session[c], 400,
                     "Title and deadline are required", <<>>)
          /\ UNCHANGED <<assignments, nextAssignment, writes>>
     ELSE /\ Budget
          /\ assignments' = Append(assignments, row)
          /\ nextAssignment' = nextAssignment + 1
          /\ writes' = writes + 1
          /\ Respond("POST /api/assignments", session[c], 201, "",
                     SelectSeq(JoinCreator(assignments'), LAMBDA a : a.id = row.id))
  /\ UNCHANGED <<program, now, session, submissions, inflight>>
  /\ UNCHANGED <<browserVars, streamVars>>

\* app.put('/api/assignments/:id')
PutAssignment(c, id, body) ==
  /\ program = "server"
  /\ LET gate == requireRole("professor", session[c])
         run == SqlUpdateAssignment(assignments, id, session[c].userId, body)
     IN
     IF gate.status # 0
     THEN /\ Respond("PUT /api/assignments/:id", session[c], gate.status,
                     gate.error, <<>>)
          /\ UNCHANGED <<assignments, writes>>
     ELSE IF body.title = "" \/ body.deadline = Missing
     THEN /\ Respond("PUT /api/assignments/:id", session[c], 400,
                     "Title and deadline are required", <<>>)
          /\ UNCHANGED <<assignments, writes>>
     ELSE IF run.changes = 0
     THEN /\ Respond("PUT /api/assignments/:id", session[c], 404,
                     "Assignment not found or not authorized", <<>>)
          /\ assignments' = run.rows
          /\ UNCHANGED writes
     ELSE /\ Budget
          /\ assignments' = run.rows
          /\ writes' = writes + 1
          /\ Respond("PUT /api/assignments/:id", session[c], 200, "", <<>>)
  /\ UNCHANGED <<program, now, session, submissions, nextAssignment, inflight>>
  /\ UNCHANGED <<browserVars, streamVars>>

\* app.delete('/api/assignments/:id')
DeleteAssignment(c, id) ==
  /\ program = "server"
  /\ LET gate == requireRole("professor", session[c])
         run == SqlDeleteAssignment(assignments, id, session[c].userId)
     IN
     IF gate.status # 0
     THEN /\ Respond("DELETE /api/assignments/:id", session[c], gate.status,
                     gate.error, <<>>)
          /\ UNCHANGED <<assignments, submissions, writes>>
     ELSE IF run.changes = 0
     THEN /\ Respond("DELETE /api/assignments/:id", session[c], 404,
                     "Assignment not found or not authorized", <<>>)
          /\ assignments' = run.rows
          /\ UNCHANGED <<submissions, writes>>
     ELSE /\ Budget
          /\ assignments' = run.rows
          /\ submissions' = SqlForeignKeyAction(submissions, id)
          /\ writes' = writes + 1
          /\ Respond("DELETE /api/assignments/:id", session[c], 200, "", <<>>)
  /\ UNCHANGED <<program, now, session, nextAssignment, inflight>>
  /\ UNCHANGED <<browserVars, streamVars>>

\* s.* with the joined names: FROM submissions s JOIN users u ON s.student_id = u.id
\* JOIN assignments a ON s.assignment_id = a.id
JoinSubmission(rows, withStudent) ==
  LET kept == SelectSeq(rows, LAMBDA r :
                /\ \E i \in DOMAIN assignments : assignments[i].id = r.assignment_id
                /\ withStudent => r.student_id \in UserIds)
      titleOf(id) == assignments[CHOOSE i \in DOMAIN assignments :
                                   assignments[i].id = id].title
  IN [i \in DOMAIN kept |->
        [id |-> kept[i].id, assignment_id |-> kept[i].assignment_id,
         student_id |-> kept[i].student_id, repo_link |-> kept[i].repo_link,
         submitted_at |-> kept[i].submitted_at, status |-> kept[i].status,
         assignment_title |-> titleOf(kept[i].assignment_id),
         student_name |-> IF withStudent THEN users[kept[i].student_id].name ELSE ""]]

\* the rows GET /api/submissions answers with
ListSubmissions(s) ==
  IF s.userRole = "professor"
  THEN OrderByDesc(JoinSubmission(submissions, TRUE), "submitted_at")
  ELSE OrderByDesc(JoinSubmission(
                     SelectSeq(submissions, LAMBDA r : r.student_id = s.userId), FALSE),
                   "submitted_at")

\* app.get('/api/submissions')
GetSubmissions(c) ==
  /\ program = "server"
  /\ LET gate == requireAuth(session[c]) IN
     IF gate.status # 0
     THEN Respond("GET /api/submissions", session[c], gate.status, gate.error, <<>>)
     ELSE Respond("GET /api/submissions", session[c], 200, "",
                  ListSubmissions(session[c]))
  /\ UNCHANGED <<program, now, writes, session, assignments, submissions,
                 nextAssignment, inflight>>
  /\ UNCHANGED <<browserVars, streamVars>>

\* the comparison with its sides exchanged
DeadlineAhead(at, deadline) == deadline > at

\* if (now > deadline), with now = new Date() and deadline = new Date(assignment.deadline)
DeadlineHasPassed(at, deadline) == at > deadline

\* app.post('/api/submissions') up to the callback of the assignment lookup:
\* the role gate, the check of the body, db.get and the deadline check
PostSubmissionLookup(c, assignmentId, repoLink) ==
  /\ program = "server"
  /\ LET gate == requireRole("student", session[c])
         found == SelectSeq(assignments, LAMBDA a : a.id = assignmentId)
     IN
     IF gate.status # 0
     THEN /\ Respond("POST /api/submissions", session[c],
                     gate.status, gate.error, <<>>)
          /\ UNCHANGED inflight
     ELSE IF assignmentId = Missing \/ repoLink = NoLink
     THEN /\ Respond("POST /api/submissions", session[c], 400,
                     "Assignment ID and repository link are required", <<>>)
          /\ UNCHANGED inflight
     ELSE IF found = <<>>
     THEN /\ Respond("POST /api/submissions", session[c], 404,
                     "Assignment not found", <<>>)
          /\ UNCHANGED inflight
     ELSE IF DeadlineHasPassed(now, found[1].deadline)
     THEN /\ Respond("POST /api/submissions", session[c], 400,
                     "Assignment deadline has passed", <<>>)
          /\ UNCHANGED inflight
     ELSE /\ Budget
          /\ inflight' = inflight (+) SetToBag({[assignment_id |-> assignmentId,
                                                 student_id |-> session[c].userId,
                                                 repo_link |-> repoLink]})
          /\ UNCHANGED response
  /\ UNCHANGED <<program, now, writes, session, assignments, submissions, nextAssignment>>
  /\ UNCHANGED <<browserVars, streamVars>>

\* app.post('/api/submissions') from db.run(query, ...) to the response
PostSubmissionWrite(r) ==
  /\ program = "server"
  /\ BagIn(r, inflight)
  /\ LET run == SqlUpsertSubmission(submissions, Len(submissions) + 1, r.assignment_id,
                                    r.student_id, r.repo_link, now)
     IN /\ submissions' = run.rows
        /\ IF run.err # ""
           THEN Respond("POST /api/submissions",
                        [userId |-> r.student_id, userRole |-> "student"], 500, "Internal server error", <<>>)
           ELSE Respond("POST /api/submissions",
                        [userId |-> r.student_id, userRole |-> "student"], 200, "", <<>>)
  /\ inflight' = inflight (-) SetToBag({r})
  /\ writes' = writes + 1
  /\ UNCHANGED <<program, now, session, assignments, nextAssignment>>
  /\ UNCHANGED <<browserVars, streamVars>>

\* email and password pairs a client may send to login
Credentials ==
  {<<users[u].email, Password123>> : u \in UserIds}
    \cup {<<users["prof1"].email, WrongPassword>>, <<"nobody@university.edu", Password123>>,
          <<"", Password123>>, <<users["stud1"].email, NoPassword>>}
\* the ids of the assignments created so far, and one id that was never given out
AssignmentIds == 1 .. nextAssignment
\* the repoLink values sent to the server; "" is a missing repoLink
ServerLinks == {NoLink, GithubY, GitlabX}

NextServer ==
  \/ \E c \in Clients, cr \in Credentials : Login(c, cr[1], cr[2])
  \/ \E c \in Clients : Logout(c)
  \/ \E c \in Clients : GetAssignments(c)
  \/ \E c \in Clients, b \in Bodies : PostAssignment(c, b)
  \/ \E c \in Clients, id \in AssignmentIds, b \in Bodies : PutAssignment(c, id, b)
  \/ \E c \in Clients, id \in AssignmentIds : DeleteAssignment(c, id)
  \/ \E c \in Clients : GetSubmissions(c)
  \/ \E c \in Clients, id \in AssignmentIds \cup {Missing}, l \in ServerLinks :
       PostSubmissionLookup(c, id, l)
  \/ \E r \in BagToSet(inflight) : PostSubmissionWrite(r)

\* ------------------------------------------------------------------ DatabaseEngine
\* btoa(text) throws InvalidCharacterError: a character is outside Latin-1
btoaThrows(text) == \E i \in DOMAIN text : text[i] > 255

\* btoa(text): the base64 digits of the bytes, 0 .. 63 in the order of the alphabet
\* A-Z a-z 0-9 + /, and 64 for the padding '='
RECURSIVE btoa(_)
btoa(b) ==
  IF b = <<>> THEN <<>>
  ELSE IF Len(b) = 1
  THEN <<b[1] \div 4, (b[1] % 4) * 16, 64, 64>>
  ELSE IF Len(b) = 2
  THEN <<b[1] \div 4, (b[1] % 4) * 16 + b[2] \div 16, (b[2] % 16) * 4, 64>>
  ELSE <<b[1] \div 4, (b[1] % 4) * 16 + b[2] \div 16,
         (b[2] % 16) * 4 + b[3] \div 64, b[3] % 64>> \o btoa(SubSeq(b, 4, Len(b)))

\* 'salt'
Salt == <<115, 97, 108, 116>>

\* hashPassword(password), for a password btoa takes:
\* `$2b$10$${btoa(password + 'salt').replace(/[^a-zA-Z0-9]/g, '').substring(0, 50)}`
hashPassword(password) ==
  LET digits == SelectSeq(btoa(password \o Salt), LAMBDA d : d < 62)
  IN <<"$2b$10$", SubSeq(digits, 1, IF Len(digits) < 50 THEN Len(digits) ELSE 50)>>

\* DatabaseEngine.tables.users: the three sample rows, with this.hashPassword('password123')
tablesUsers ==
  [u \in {"prof1", "stud1", "stud2"} |->
     [users[u] EXCEPT !.password_hash = hashPassword(Password123)]]

\* verifyPassword(password, hash)
verifyPassword(password, hash) == hashPassword(password) = hash

\* Map.get(k) || []
MapGet(m, k) == IF k \in DOMAIN m THEN m[k] ELSE <<>>

\* if (!m.has(k)) m.set(k, []); m.get(k).push(v)
MapPush(m, k, v) ==
  IF k \in DOMAIN m THEN [m EXCEPT ![k] = Append(@, v)] ELSE m @@ (k :> <<v>>)

\* the row objects a list of references points to
Deref(refs) ==
  [i \in DOMAIN refs |->
     submissions[CHOOSE j \in DOMAIN submissions : submissions[j].id = refs[i]]]

\* executeSelect: 'from users where email = ?'
executeSelectUser(email) ==
  IF \E u \in DOMAIN tablesUsers : tablesUsers[u].email = email
  THEN tablesUsers[CHOOSE u \in DOMAIN tablesUsers : tablesUsers[u].email = email]
  ELSE NoUser

\* executeSelect: 'from assignments', with or without 'where created_by = ?'
executeSelectAssignments(byCreator, userId) ==
  IF byCreator THEN MapGet(indexes.assignments_created_by, userId) ELSE assignments

\* executeSelect: 'from submissions', with or without 'where student_id = ?'
executeSelectSubmissions(byStudent, userId) ==
  IF byStudent THEN Deref(MapGet(indexes.submissions_student_id, userId)) ELSE submissions

\* the timeout a listener's callback waits in, and the one broadcastUpdate sets
Timeout(stage, callback, type, data) ==
  [stage |-> stage, callback |-> callback, type |-> type, data |-> data]

\* the listeners registered for an event, in the order of registration
ListenersOf(event) == SelectSeq(eventListeners, LAMBDA l : l.event = event)

\* a triggerEvent that calls each callback inside forEach: the callbacks before the
\* first one that throws have run (broadcastUpdate has set its timeout), the throw
\* ends forEach and leaves triggerEvent
triggerEventSync(event, data) ==
  LET hit == ListenersOf(event)
      throwers == {i \in DOMAIN hit : hit[i].callback = "throws"}
      stop == IF throwers = {} THEN Len(hit) + 1
              ELSE CHOOSE i \in throwers : \A j \in throwers : i <= j
  IN [timeouts |-> [i \in 1 .. (stop - 1) |->
                      Timeout("broadcast", hit[i].callback, event, data)],
      threw |-> throwers # {}]

\* DatabaseEngine.triggerEvent(event, data): setTimeout(() => listener.callback(data), 0)
\* for each listener of the event, in order; nothing is thrown to the caller
triggerEvent(event, data) ==
  LET hit == ListenersOf(event)
  IN [timeouts |-> [i \in DOMAIN hit |->
                      Timeout("listener", hit[i].callback, event, data)],
      threw |-> FALSE]

\* an insert that takes created_by from the row given by the caller, who left it out
executeInsertUnstamped(body, userId) ==
  LET row == [id |-> nextAssignment, title |-> body.title,
              description |-> body.description, deadline |-> body.deadline,
              instructions |-> body.instructions, created_by |-> "",
              created_at |-> now]
  IN [row |-> row,
      assignments |-> Append(assignments, row),
      indexes |-> [indexes EXCEPT !.assignments_created_by = MapPush(@, "", row)],
      event |-> triggerEvent("assignment_created", <<row>>)]

\* executeInsert 'into assignments' with updateIndexes: the new tables and indexes
executeInsertAssignment(body, userId) ==
  LET row == [id |-> nextAssignment, title |-> body.title,
              description |-> body.description, deadline |-> body.deadline,
              instructions |-> body.instructions, created_by |-> userId,
              created_at |-> now]
  IN [row |-> row,
      assignments |-> Append(assignments, row),
      indexes |-> [indexes EXCEPT !.assignments_created_by = MapPush(@, userId, row)],
      event |-> triggerEvent("assignment_created", <<row>>)]

\* executeInsert 'into submissions' with updateIndexes
executeInsertSubmission(assignmentId, userId, repoLink) ==
  LET row == [id |-> Len(submissions) + 1, assignment_id |-> assignmentId,
              student_id |-> userId, repo_link |-> repoLink, submitted_at |-> now,
              status |-> "submitted"]
  IN [row |-> row,
      submissions |-> Append(submissions, row),
      indexes |-> [indexes EXCEPT
                     !.submissions_assignment_id = MapPush(@, assignmentId, row.id),
                     !.submissions_student_id = MapPush(@, userId, row.id)],
      event |-> triggerEvent("submission_created", <<row>>)]

\* executeUpdate 'submissions set': the first row of that assignment and student
executeUpdate(repoLink, assignmentId, userId) ==
  LET hits == {i \in DOMAIN submissions :
                 submissions[i].assignment_id = assignmentId
                 /\ submissions[i].student_id = userId}
      first == CHOOSE i \in hits : \A j \in hits : i <= j
      row == [submissions[first] EXCEPT !.repo_link = repoLink, !.submitted_at = now]
  IN IF hits = {}
     THEN [row |-> <<>>, submissions |-> submissions,
           event |-> [timeouts |-> <<>>, threw |-> FALSE]]
     ELSE [row |-> <<row>>,
           submissions |-> [submissions EXCEPT ![first].repo_link = repoLink,
                                               ![first].submitted_at = now],
           event |-> triggerEvent("submission_updated", <<row>>)]

\* executeDelete 'from assignments where id = ?': splices the row out of the table
executeDelete(id) ==
  [row |-> SelectSeq(assignments, LAMBDA a : a.id = id),
   assignments |-> SelectSeq(assignments, LAMBDA a : a.id # id)]

\* ------------------------------------------------------------------ APIService
NoBody == [title |-> "", description |-> "", deadline |-> Missing, instructions |-> ""]

\* a call of an APIService method with its arguments
Timer(call, email, password, body, assignmentId, repoLink) ==
  [call |-> call, email |-> email, password |-> password, body |-> body,
   assignmentId |-> assignmentId, repoLink |-> repoLink]

\* new Promise(... setTimeout(..., latency)): the call waits for its timer, while
\* fewer than bound calls wait
SetTimeoutWithin(t, bound) ==
  /\ program = "browser"
  /\ BagCardinality(timers) < bound
  /\ NoTimeoutDue
  /\ timers' = timers (+) SetToBag({t})

SetTimeout(t) == SetTimeoutWithin(t, MaxTimers)

\* the timer of call t fires
Fires(t, call) ==
  /\ program = "browser"
  /\ BagIn(t, timers)
  /\ t.call = call
  /\ NoTimeoutDue
  /\ timers' = timers (-) SetToBag({t})
  /\ stale' = IF call = "logout" THEN timers' ELSE stale (-) SetToBag({t})

\* resolve(value), reject(new Error(error)), or an exception thrown in the callback
Settle(call, outcome, error, rows) ==
  settled' = [call |-> call, outcome |-> outcome, error |-> error, rows |-> rows]

\* APIService.login, APIService.logout, ... : the call is issued
CallWithin(t, bound) ==
  /\ SetTimeoutWithin(t, bound)
  /\ UNCHANGED <<program, now, writes, assignments, submissions, nextAssignment>>
  /\ UNCHANGED <<serverVars, indexes, currentSession, settled>>
  /\ UNCHANGED notifyVars
  /\ UNCHANGED pageVars

Call(t) == CallWithin(t, MaxTimers)

\* an AppState.login that sets currentUser and leaves currentRole as it was
AppStateLoginKeepsRole(result) ==
  [currentUser |-> result.user, currentRole |-> appState.currentRole]

\* AppState.login after await this.api.login(...): currentUser and currentRole
AppStateLogin(result) ==
  [currentUser |-> result.user, currentRole |-> result.user.role]

\* AppState.logout after await this.api.logout()
AppStateLogout == NoAppState

\* APIService.login: the timer callback, and the continuation of AppState.login, which
\* runs before any other timer
FireLogin(t) ==
  /\ Fires(t, "login")
  /\ LET user == executeSelectUser(t.email) IN
     IF user # NoUser /\ btoaThrows(t.password \o Salt)
     THEN /\ Settle("login", "rejected", "InvalidCharacterError", <<>>)
          /\ UNCHANGED <<currentSession, appState>>
     ELSE IF user # NoUser /\ verifyPassword(t.password, user.password_hash)
     THEN /\ currentSession' = [userId |-> user.id, user |-> user]
          /\ Settle("login", "resolved", "",
                    << [user |-> [user EXCEPT !.password_hash = <<>>],
                        session |-> currentSession'] >>)
          /\ appState' = AppStateLogin(settled'.rows[1])
     ELSE /\ Settle("login", "rejected", "Invalid credentials", <<>>)
          /\ UNCHANGED <<currentSession, appState>>
  /\ UNCHANGED <<program, now, writes, assignments, submissions, nextAssignment>>
  /\ UNCHANGED <<serverVars, indexes>>
  /\ UNCHANGED notifyVars
  /\ UNCHANGED rendered

\* APIService.logout: the timer callback, and the continuation of AppState.logout
FireLogout(t) ==
  /\ Fires(t, "logout")
  /\ currentSession' = Null
  /\ Settle("logout", "resolved", "", <<>>)
  /\ UNCHANGED <<program, now, writes, assignments, submissions, nextAssignment>>
  /\ UNCHANGED <<serverVars, indexes>>
  /\ UNCHANGED notifyVars
  /\ appState' = AppStateLogout
  /\ UNCHANGED rendered

\* APIService.getAssignments: the timer callback
FireGetAssignments(t) ==
  /\ Fires(t, "getAssignments")
  /\ Settle("getAssignments", "resolved", "",
            executeSelectAssignments(currentSession.user.role = "professor",
                                     currentSession.userId))
  /\ UNCHANGED <<program, now, writes, assignments, submissions, nextAssignment>>
  /\ UNCHANGED <<serverVars, indexes, currentSession>>
  /\ UNCHANGED notifyVars
  /\ UNCHANGED <<appState, rendered>>

\* APIService.createAssignment: the timer callback
FireCreateAssignment(t) ==
  /\ Fires(t, "createAssignment")
  /\ IF currentSession = Null \/ currentSession.user.role # "professor"
     THEN /\ Settle("createAssignment", "rejected", "Unauthorized", <<>>)
          /\ UNCHANGED <<assignments, indexes, nextAssignment, writes, events, lastChange>>
     ELSE LET run == executeInsertAssignment(t.body, currentSession.userId) IN
          /\ Budget
          /\ assignments' = run.assignments
          /\ indexes' = run.indexes
          /\ nextAssignment' = nextAssignment + 1
          /\ writes' = writes + 1
          /\ events' = events \o run.event.timeouts
          /\ lastChange' = [type |-> "assignment_created", data |-> <<run.row>>]
          /\ IF run.event.threw
             THEN Settle("createAssignment", "rejected", "thrown by a listener", <<>>)
             ELSE Settle("createAssignment", "resolved", "", <<run.row>>)
  /\ UNCHANGED <<program, now, submissions, currentSession, serverVars>>
  /\ UNCHANGED <<eventListeners, realtime>>
  /\ UNCHANGED <<appState, rendered>>

\* APIService.getSubmissions: the timer callback; with no session the read of
\* this.currentSession.userId throws and the promise is never settled
FireGetSubmissions(t) ==
  /\ Fires(t, "getSubmissions")
  /\ IF currentSession = Null
     THEN Settle("getSubmissions", "thrown", "TypeError", <<>>)
     ELSE Settle("getSubmissions", "resolved", "",
                 executeSelectSubmissions(currentSession.user.role # "professor",
                                          currentSession.userId))
  /\ UNCHANGED <<program, now, writes, assignments, submissions, nextAssignment>>
  /\ UNCHANGED <<serverVars, indexes, currentSession>>
  /\ UNCHANGED notifyVars
  /\ UNCHANGED <<appState, rendered>>

\* DatabaseEngine.getStats
getStats ==
  [totalUsers |-> Cardinality(DOMAIN tablesUsers),
   totalAssignments |-> Len(assignments),
   totalSubmissions |-> Len(submissions),
   activeSessions |-> 0,
   indexCount |-> Cardinality(DOMAIN indexes)]

\* generateSubmissionTimeline: the submissions counted by their day; the seven labels
\* and the random fill of the days without a submission are left out
generateSubmissionTimeline(rows) ==
  [d \in {rows[i].submitted_at : i \in DOMAIN rows} |->
     Cardinality({i \in DOMAIN rows : rows[i].submitted_at = d})]

\* APIService.getAnalytics: the timer callback; it reads no session
FireGetAnalytics(t) ==
  /\ Fires(t, "getAnalytics")
  /\ Settle("getAnalytics", "resolved", "",
            << [stats |-> getStats,
                submissionTimeline |-> generateSubmissionTimeline(submissions)] >>)
  /\ UNCHANGED <<program, now, writes, assignments, submissions, nextAssignment>>
  /\ UNCHANGED <<serverVars, indexes, currentSession>>
  /\ UNCHANGED notifyVars
  /\ UNCHANGED <<appState, rendered>>

\* APIService.createSubmission: the timer callback
FireCreateSubmission(t) ==
  /\ Fires(t, "createSubmission")
  /\ IF currentSession = Null \/ currentSession.user.role # "student"
     THEN /\ Settle("createSubmission", "rejected", "Unauthorized", <<>>)
          /\ UNCHANGED <<submissions, indexes, writes, events, lastChange>>
     ELSE IF \E i \in DOMAIN submissions :
               submissions[i].assignment_id = t.assignmentId
               /\ submissions[i].student_id = currentSession.userId
     THEN LET run == executeUpdate(t.repoLink, t.assignmentId, currentSession.userId) IN
          /\ Budget
          /\ submissions' = run.submissions
          /\ writes' = writes + 1
          /\ events' = events \o run.event.timeouts
          /\ lastChange' = [type |-> "submission_updated", data |-> run.row]
          /\ IF run.event.threw
             THEN Settle("createSubmission", "rejected", "thrown by a listener", <<>>)
             ELSE Settle("createSubmission", "resolved", "", run.row)
          /\ UNCHANGED indexes
     ELSE LET run == executeInsertSubmission(t.assignmentId, currentSession.userId,
                                             t.repoLink) IN
          /\ Budget
          /\ submissions' = run.submissions
          /\ indexes' = run.indexes
          /\ writes' = writes + 1
          /\ events' = events \o run.event.timeouts
          /\ lastChange' = [type |-> "submission_created", data |-> <<run.row>>]
          /\ IF run.event.threw
             THEN Settle("createSubmission", "rejected", "thrown by a listener", <<>>)
             ELSE Settle("createSubmission", "resolved", "", <<run.row>>)
  /\ UNCHANGED <<program, now, assignments, nextAssignment, currentSession, serverVars>>
  /\ UNCHANGED <<eventListeners, realtime>>
  /\ UNCHANGED <<appState, rendered>>

\* the timeout of triggerEvent at the head of the queue runs listener.callback(data):
\* the callbacks of APIService call broadcastUpdate, which sets its timeout of 100 ms;
\* a callback that throws ends its own timeout and nothing else
ListenerTimeout ==
  /\ program = "browser"
  /\ events # <<>>
  /\ Head(events).stage = "listener"
  /\ events' = IF Head(events).callback = "broadcastUpdate"
               THEN Append(Tail(events), [Head(events) EXCEPT !.stage = "broadcast"])
               ELSE Tail(events)
  /\ UNCHANGED <<program, now, writes, assignments, submissions, nextAssignment>>
  /\ UNCHANGED <<serverVars, indexes, currentSession, timers, settled>>
  /\ UNCHANGED <<eventListeners, realtime, lastChange>>
  /\ UNCHANGED pageVars

\* the timeout of APIService.broadcastUpdate runs:
\* window.dispatchEvent(new CustomEvent('realtime_update', {detail: {type, data}}))
BroadcastTimeout ==
  /\ program = "browser"
  /\ events # <<>>
  /\ Head(events).stage = "broadcast"
  /\ realtime' = [type |-> Head(events).type, data |-> Head(events).data]
  /\ events' = Tail(events)
  /\ UNCHANGED <<program, now, writes, assignments, submissions, nextAssignment>>
  /\ UNCHANGED <<serverVars, indexes, currentSession, timers, settled>>
  /\ UNCHANGED <<eventListeners, lastChange>>
  /\ UNCHANGED pageVars

\* DatabaseEngine.query('DELETE FROM assignments WHERE id = ?', [id])
QueryDelete(id) ==
  /\ program = "browser"
  /\ NoTimeoutDue
  /\ LET run == executeDelete(id) IN
     /\ run.row # <<>> => Budget
     /\ assignments' = run.assignments
     /\ writes' = IF run.row # <<>> THEN writes + 1 ELSE writes
     /\ Settle("query delete", "resolved", "", run.row)
  /\ UNCHANGED <<program, now, submissions, nextAssignment>>
  /\ UNCHANGED <<serverVars, indexes, currentSession, timers>>
  /\ UNCHANGED notifyVars
  /\ UNCHANGED pageVars

\* the submit listener of submission-form (setupModalHandlers): the URL check, then
\* appState.createSubmission
SubmissionFormSubmit(assignmentId, repoLink) ==
  /\ program = "browser"
  /\ IF ~IsWellFormedURL(repoLink)
     THEN /\ Settle("submission-form", "rejected",
                    "Please enter a valid GitHub repository URL", <<>>)
          /\ UNCHANGED timers
     ELSE IF ~IncludesGithub(repoLink)
     THEN /\ Settle("submission-form", "rejected",
                    "Please provide a GitHub repository URL", <<>>)
          /\ UNCHANGED timers
     ELSE /\ SetTimeout(Timer("createSubmission", "", NoPassword, NoBody, assignmentId, repoLink))
          /\ UNCHANGED settled
  /\ UNCHANGED <<program, now, writes, assignments, submissions, nextAssignment>>
  /\ UNCHANGED <<serverVars, indexes, currentSession>>
  /\ UNCHANGED notifyVars
  /\ UNCHANGED pageVars

\* ------------------------------------------------------------------ inputs
\* email and password pairs given to APIService.login
BrowserCredentials ==
  {<<tablesUsers[u].email, Password123>> : u \in DOMAIN tablesUsers}
    \cup {<<tablesUsers["prof1"].email, WrongPassword>>,
          <<tablesUsers["prof1"].email, EuroPassword>>,
          <<"nobody@university.edu", Password123>>}
\* the repoLink values typed into the submission form
FormLinks == {GithubDeep, GitlabX, EvilGithub, NotAUrl}
\* the values of create-assignment-form: filled in, and with the title left empty
FormBodies == {b \in Bodies : b.deadline = 1}
\* the ids of the assignments created so far
KnownIds == 1 .. (nextAssignment - 1)

NextBrowser ==
  \/ \E cr \in BrowserCredentials : Call(Timer("login", cr[1], cr[2], NoBody, Missing, NoLink))
  \/ Call(Timer("logout", "", NoPassword, NoBody, Missing, NoLink))
  \/ Call(Timer("getAssignments", "", NoPassword, NoBody, Missing, NoLink))
  \/ \E b \in FormBodies : Call(Timer("createAssignment", "", NoPassword, b, Missing, NoLink))
  \/ Call(Timer("getSubmissions", "", NoPassword, NoBody, Missing, NoLink))
  \/ \E id \in KnownIds, l \in FormLinks : SubmissionFormSubmit(id, l)
  \/ \E t \in BagToSet(timers) : FireLogin(t)
  \/ \E t \in BagToSet(timers) : FireLogout(t)
  \/ \E t \in BagToSet(timers) : FireGetAssignments(t)
  \/ \E t \in BagToSet(timers) : FireCreateAssignment(t)
  \/ \E t \in BagToSet(timers) : FireGetSubmissions(t)
  \/ \E t \in BagToSet(timers) : FireCreateSubmission(t)
  \/ \E id \in KnownIds : QueryDelete(id)
  \/ ListenerTimeout
  \/ BroadcastTimeout

Next ==
  \/ Tick
  \/ NextServer
  \/ NextBrowser

Spec == Init /\ [][Next]_vars

\* the server alone
InitServer == Init /\ program = "server"

NextOfServer ==
  \/ Tick
  \/ NextServer

SpecServer == InitServer /\ [][NextOfServer]_vars

\* the browser layer alone
InitBrowser == Init /\ program = "browser"

NextOfBrowser ==
  \/ Tick
  \/ NextBrowser

SpecBrowser == InitBrowser /\ [][NextOfBrowser]_vars

\* the notifications of the browser layer: prof1 and stud1 log in, create assignments
\* and submit, and every timer that was set fires (the event loop runs a timeout that
\* is due). A call that writes is issued only while a write is left to it, so that
\* the behaviour stops only where the user stops
NextAnnounce ==
  \/ \E u \in {"prof1", "stud1"} :
       Call(Timer("login", tablesUsers[u].email, Password123, NoBody, Missing, NoLink))
  \/ \E b \in FormBodies :
       Budget /\ Call(Timer("createAssignment", "", NoPassword, b, Missing, NoLink))
  \/ \E id \in KnownIds : Budget /\ SubmissionFormSubmit(id, GithubDeep)
  \/ \E t \in BagToSet(timers) : FireLogin(t)
  \/ \E t \in BagToSet(timers) : FireCreateAssignment(t)
  \/ \E t \in BagToSet(timers) : FireCreateSubmission(t)
  \/ ListenerTimeout
  \/ BroadcastTimeout

TimerFires ==
  \E t \in BagToSet(timers) :
    FireLogin(t) \/ FireCreateAssignment(t) \/ FireCreateSubmission(t)

SpecAnnounce ==
  /\ InitBrowser
  /\ [][NextAnnounce]_vars
  /\ WF_vars(TimerFires)
  /\ WF_vars(ListenerTimeout)
  /\ WF_vars(BroadcastTimeout)

\* the same after a script of the page has registered its listeners
InitListeners == Constructed(setupEventListeners \o pageListeners) /\ program = "browser"

SpecListeners == InitListeners /\ [][NextAnnounce]_vars

\* ------------------------------------------------------------------ event stream
\* the requests of /api/submissions/stream that can be open at a time; each names its
\* response object res
Streams == 1 .. MaxStreams

\* the ones that are open
OpenStreams == {k.stream : k \in connections}

\* app.get('/api/submissions/stream'): the request k of client c arrives
StreamConnect(c, k) ==
  /\ program = "server"
  /\ k \notin OpenStreams
  /\ IF requireAuth(session[c]).status # 0
     THEN /\ Respond("GET /api/submissions/stream", session[c],
                     requireAuth(session[c]).status, requireAuth(session[c]).error, <<>>)
          /\ UNCHANGED streamVars
     ELSE LET clientId == now IN
          /\ sseClients' = Append(sseClients, [id |-> clientId, response |-> k])
          /\ connections' = connections \cup {[stream |-> k, clientId |-> clientId]}
          /\ Respond("GET /api/submissions/stream", session[c], 200, "",
                     << [type |-> "connected", clientId |-> clientId] >>)
  /\ UNCHANGED <<program, now, writes, assignments, submissions, nextAssignment>>
  /\ UNCHANGED <<session, inflight, browserVars>>

\* req.on('close'): the client of an open stream disconnects
StreamClose(k) ==
  /\ program = "server"
  /\ k \in connections
  /\ sseClients' = SelectSeq(sseClients, LAMBDA client : client.id # k.clientId)
  /\ connections' = connections \ {k}
  /\ UNCHANGED <<program, now, writes, assignments, submissions, nextAssignment>>
  /\ UNCHANGED <<session, inflight, response, browserVars>>

\* clients log in and out, open streams and close them, and time passes
NextStream ==
  \/ Tick
  \/ \E c \in Clients, cr \in Credentials : Login(c, cr[1], cr[2])
  \/ \E c \in Clients : Logout(c)
  \/ \E c \in Clients, k \in Streams : StreamConnect(c, k)
  \/ \E k \in connections : StreamClose(k)

SpecStream == InitServer /\ [][NextStream]_vars

\* ------------------------------------------------------------------ sessions
\* AppState.login and AppState.logout are called in any order, a second call before the
\* timer of the first has fired included; login waits 300 to 800 ms and logout 200 ms,
\* so a login can fire after a logout that was called later
NextSession ==
  \/ \E cr \in BrowserCredentials :
       CallWithin(Timer("login", cr[1], cr[2], NoBody, Missing, NoLink), MaxPending)
  \/ CallWithin(Timer("logout", "", NoPassword, NoBody, Missing, NoLink), MaxPending)
  \/ \E t \in BagToSet(timers) : FireLogin(t)
  \/ \E t \in BagToSet(timers) : FireLogout(t)

SpecSession == InitBrowser /\ [][NextSession]_vars

\* ------------------------------------------------------------------ settling
\* the seven methods of APIService
ApiCalls == {"login", "logout", "getAssignments", "createAssignment", "getSubmissions",
             "createSubmission", "getAnalytics"}

\* every method is called in every session state, and every timer that was set fires.
\* A call that writes is issued only while a write is left to it
NextSettle ==
  \/ \E cr \in BrowserCredentials : Call(Timer("login", cr[1], cr[2], NoBody, Missing, NoLink))
  \/ Call(Timer("logout", "", NoPassword, NoBody, Missing, NoLink))
  \/ Call(Timer("getAssignments", "", NoPassword, NoBody, Missing, NoLink))
  \/ \E b \in FormBodies :
       Budget /\ Call(Timer("createAssignment", "", NoPassword, b, Missing, NoLink))
  \/ Call(Timer("getSubmissions", "", NoPassword, NoBody, Missing, NoLink))
  \/ \E id \in KnownIds : Budget /\ SubmissionFormSubmit(id, GithubDeep)
  \/ Call(Timer("getAnalytics", "", NoPassword, NoBody, Missing, NoLink))
  \/ \E t \in BagToSet(timers) : FireLogin(t)
  \/ \E t \in BagToSet(timers) : FireLogout(t)
  \/ \E t \in BagToSet(timers) : FireGetAssignments(t)
  \/ \E t \in BagToSet(timers) : FireCreateAssignment(t)
  \/ \E t \in BagToSet(timers) : FireGetSubmissions(t)
  \/ \E t \in BagToSet(timers) : FireCreateSubmission(t)
  \/ \E t \in BagToSet(timers) : FireGetAnalytics(t)
  \/ ListenerTimeout
  \/ BroadcastTimeout

\* the event loop runs the callback of a timer that is due
AnyTimerFires ==
  \E t \in BagToSet(timers) :
    \/ FireLogin(t) \/ FireLogout(t) \/ FireGetAssignments(t) \/ FireCreateAssignment(t)
    \/ FireGetSubmissions(t) \/ FireCreateSubmission(t) \/ FireGetAnalytics(t)

SpecSettle ==
  /\ InitBrowser
  /\ [][NextSettle]_vars
  /\ WF_vars(AnyTimerFires)
  /\ WF_vars(ListenerTimeout)
  /\ WF_vars(BroadcastTimeout)

\* ------------------------------------------------------------------ deadline helpers
\* 1000 * 60 * 60 * 24, the milliseconds of a day
DayMs == 86400000

\* Math.ceil(a / b) for b > 0; Math.ceil gives -0 between -1 and 0, and -0 === 0
Ceil(a, b) == -((-a) \div b)

\* formatDeadline(dateString) called at the instant at, both in milliseconds; the
\* template string is the sequence of its pieces
formatDeadline(deadline, at) ==
  LET diffTime == deadline - at
      diffDays == Ceil(diffTime, DayMs)
  IN  IF diffDays < 0 THEN <<"Overdue">>
      ELSE IF diffDays = 0 THEN <<"Due today">>
      ELSE IF diffDays = 1 THEN <<"Due tomorrow">>
      ELSE <<"Due in ", diffDays, " days">>

\* isOverdue(deadline) called at the instant at
isOverdue(deadline, at) == at > deadline

\* an assignment card is rendered: both helpers are called for its deadline
RenderDeadline(deadline, at) ==
  /\ program = "browser"
  /\ rendered' = [deadline |-> deadline, at |-> at,
                  text |-> formatDeadline(deadline, at),
                  overdue |-> isOverdue(deadline, at)]
  /\ UNCHANGED <<program, now, writes, assignments, submissions, nextAssignment>>
  /\ UNCHANGED <<serverVars, indexes, currentSession, timers, settled, notifyVars>>
  /\ UNCHANGED <<appState, stale>>

\* deadlines at midnight of the first days
Deadlines == {d * DayMs : d \in 0 .. MaxDays}

\* instants every half day, each with the millisecond before and after it
Instants == {k * (DayMs \div 2) + e : k \in 0 .. 2 * MaxDays, e \in {-1, 0, 1}}

NextDeadline == \E deadline \in Deadlines, at \in Instants : RenderDeadline(deadline, at)

SpecDeadline == InitBrowser /\ [][NextDeadline]_vars

\* ------------------------------------------------------------------ claims
Students == {u \in UserIds : users[u].role = "student"}

\* the rows of a table for one assignment and one student
RowsFor(rows, a, s) ==
  SelectSeq(rows, LAMBDA r : r.assignment_id = a /\ r.student_id = s)

\* their links
LinksFor(rows, a, s) == [i \in DOMAIN RowsFor(rows, a, s) |-> RowsFor(rows, a, s)[i].repo_link]

\* this step is the write of a POST /api/submissions, answered 200
AcceptedWrite(r) == PostSubmissionWrite(r) /\ response'.status = 200

\* this step is the callback of an APIService.createSubmission, resolved
AcceptedCall(t) == FireCreateSubmission(t) /\ settled'.outcome = "resolved"

\* C1: an accepted create-or-update-submission of student s for assignment a with link
\* l leaves exactly one row for (a, s), holding l, and no other step changes the links
\* stored for (a, s): the row holds the link of the most recently accepted call
\* (server and browser layer)
C1_OneRowLatestLink ==
  [][/\ \A r \in BagToSet(inflight) :
          AcceptedWrite(r)
            => LinksFor(submissions', r.assignment_id, r.student_id) = <<r.repo_link>>
     /\ \A t \in BagToSet(timers) :
          AcceptedCall(t)
            => LinksFor(submissions', t.assignmentId, currentSession.userId)
                 = <<t.repoLink>>
     /\ submissions' # submissions
          => \A a \in AssignmentIds, s \in Students :
               LinksFor(submissions', a, s) # LinksFor(submissions, a, s)
                 => \/ \E r \in BagToSet(inflight) :
                         /\ r.assignment_id = a /\ r.student_id = s
                         /\ AcceptedWrite(r)
                    \/ \E t \in BagToSet(timers) :
                         /\ t.assignmentId = a /\ currentSession.userId = s
                         /\ AcceptedCall(t)]_vars

\* C1 witness: two accepted resubmissions of stud1 for assignment 1 on the server, the
\* second with another link than the first
C1_Witness ==
  /\ program = "server"
  /\ writes = 2
  /\ assignments = sampleAssignments
  /\ Len(submissions) = 1
  /\ submissions[1].repo_link = GitlabX
  /\ submissions[1].submitted_at = 0
  /\ response.op = "POST /api/submissions"
  /\ response.status = 200

\* C2: no interleaving of concurrent POST /api/submissions leaves two rows for one
\* (assignment, student), and none is answered with the error of a failed statement
C2_NoDuplicateNoConflict ==
  /\ \A a \in AssignmentIds, s \in Students : Len(RowsFor(submissions, a, s)) <= 1
  /\ ~(response.op = "POST /api/submissions" /\ response.status = 500)

\* C2 witness: two requests of one student for one assignment that has no row yet are
\* both past the lookup and before the write
C2_Witness ==
  \E r \in BagToSet(inflight), q \in BagToSet(inflight) :
    /\ r.assignment_id = q.assignment_id
    /\ r.student_id = q.student_id
    /\ r # q \/ CopiesIn(r, inflight) = 2
    /\ RowsFor(submissions, r.assignment_id, r.student_id) = <<>>

\* the stored assignment with this id, as a sequence of at most one row
Stored(id) == SelectSeq(assignments, LAMBDA a : a.id = id)

\* a student is logged in on c, assignment id is stored and its deadline is earlier
\* than the current time
PastDeadlineFor(c, id) ==
  /\ session[c].userRole = "student"
  /\ Stored(id) # <<>>
  /\ Stored(id)[1].deadline < now

C4_BrowserDeadline ==
  [][\A t \in BagToSet(timers) :
       /\ currentSession.user.role = "student"
       /\ Stored(t.assignmentId) # <<>>
       /\ Stored(t.assignmentId)[1].deadline < now
       /\ FireCreateSubmission(t)
       => settled'.outcome = "rejected" /\ submissions' = submissions]_vars

\* C5 as stated: after a successful delete of an assignment by its creator no row of
\* submissions refers to it (DELETE /api/assignments/:id), and in the browser layer
\* neither a row nor an entry of the submission indexes does (executeDelete)
C5_DeleteCascades ==
  [][/\ \A c \in Clients, id \in AssignmentIds :
          DeleteAssignment(c, id) /\ response'.status = 200
            => \A i \in DOMAIN submissions' : submissions'[i].assignment_id # id
     /\ \A id \in AssignmentIds :
          QueryDelete(id) /\ settled'.rows # <<>>
            => /\ \A i \in DOMAIN submissions' : submissions'[i].assignment_id # id
               /\ MapGet(indexes'.submissions_assignment_id, id) = <<>>]_vars

\* no stored assignment has this id and this creator
NotOwned(id, userId) ==
  \A i \in DOMAIN assignments :
    ~(assignments[i].id = id /\ assignments[i].created_by = userId)

\* the answer is the not-found-or-not-authorized error and both tables are as they were
RefusedNotOwned ==
  /\ response'.status = 404
  /\ response'.error = "Assignment not found or not authorized"
  /\ assignments' = assignments
  /\ submissions' = submissions

\* C6 as stated: every update and every delete by a professor of an id that is not a
\* stored assignment of theirs is answered with the not-found-or-not-authorized error
\* and changes neither table
C6_Original ==
  [][\A c \in Clients, id \in AssignmentIds :
       session[c].userRole = "professor" /\ NotOwned(id, session[c].userId)
       => /\ DeleteAssignment(c, id) => RefusedNotOwned
          /\ \A body \in Bodies : PutAssignment(c, id, body) => RefusedNotOwned]_vars

\* C6 amended: a delete, and an update that carries title and deadline, by a professor
\* of an id that is not a stored assignment of theirs is answered 404 with the
\* not-found-or-not-authorized error, the same whether the id is stored or not; an
\* update without title or deadline is answered 400 with the required-fields error;
\* none of them changes assignments or submissions
C6_Amended ==
  [][\A c \in Clients, id \in AssignmentIds :
       session[c].userRole = "professor" /\ NotOwned(id, session[c].userId)
       => /\ DeleteAssignment(c, id) => RefusedNotOwned
          /\ \A body \in Bodies :
               PutAssignment(c, id, body)
               => IF body.title = "" \/ body.deadline = Missing
                  THEN /\ response'.status = 400
                       /\ response'.error = "Title and deadline are required"
                       /\ assignments' = assignments
                       /\ submissions' = submissions
                  ELSE RefusedNotOwned]_vars

\* C6 witness: prof2 was refused the delete of an assignment while the two sample
\* assignments of prof1 and nothing else are stored
C6_Witness ==
  /\ response.op = "DELETE /api/assignments/:id"
  /\ response.status = 404
  /\ response.userId = "prof2"
  /\ assignments = sampleAssignments

\* C7 as stated: the assignments a professor is answered with by GET /api/assignments,
\* and by APIService.getAssignments, are all created by that professor
C7_OwnAssignmentsOnly ==
  [][/\ \A c \in Clients :
          session[c].userRole = "professor" /\ GetAssignments(c)
            => \A i \in DOMAIN response'.rows :
                 response'.rows[i].created_by = session[c].userId
     /\ \A t \in BagToSet(timers) :
          currentSession.user.role = "professor" /\ FireGetAssignments(t)
            => \A i \in DOMAIN settled'.rows :
                 settled'.rows[i].created_by = currentSession.userId]_vars

\* what identifies a submission and what it holds
Core(r) == [id |-> r.id, assignment_id |-> r.assignment_id,
            student_id |-> r.student_id, repo_link |-> r.repo_link]

\* the stored submissions of one student
StoredOf(s) == {Core(submissions[i]) : i \in {j \in DOMAIN submissions :
                                                submissions[j].student_id = s}}

\* C8 as stated: the submissions a student is answered with by GET /api/submissions,
\* and by APIService.getSubmissions, are exactly the stored submissions of that student
C8_OwnSubmissionsExactly ==
  [][/\ \A c \in Clients :
          session[c].userRole = "student" /\ GetSubmissions(c)
            => {Core(response'.rows[i]) : i \in DOMAIN response'.rows}
                 = StoredOf(session[c].userId)
     /\ \A t \in BagToSet(timers) :
          currentSession.user.role = "student" /\ FireGetSubmissions(t)
            => {Core(settled'.rows[i]) : i \in DOMAIN settled'.rows}
                 = StoredOf(currentSession.userId)]_vars

\* C9 as stated: a create-or-update-submission with a well-formed URL is accepted, and
\* the link stored, exactly when the host of the URL is github.com; otherwise nothing
\* is stored for it (POST /api/submissions carried to its write, and the submission
\* form carried to the callback of APIService.createSubmission)
C9_GithubHostOnly ==
  [][/\ \A r \in BagToSet(inflight) :
          IsWellFormedURL(r.repo_link) /\ PostSubmissionWrite(r)
            => Host(r.repo_link) = "github.com"
     /\ \A c \in Clients, id \in AssignmentIds, l \in ServerLinks :
          /\ IsWellFormedURL(l) /\ Host(l) # "github.com"
          /\ PostSubmissionLookup(c, id, l)
          => response'.status >= 400 /\ inflight' = inflight
     /\ \A id \in AssignmentIds, l \in FormLinks :
          IsWellFormedURL(l) /\ SubmissionFormSubmit(id, l)
            => IF Host(l) = "github.com"
               THEN timers' # timers
               ELSE settled'.outcome = "rejected" /\ timers' = timers]_vars

\* a call of APIService that the role gate covers fires
FiresGated(t) ==
  \/ FireGetAssignments(t)
  \/ FireCreateAssignment(t)
  \/ FireGetSubmissions(t)
  \/ FireCreateSubmission(t)

\* C10 as stated, for the APIService methods: with no session every gated call is
\* rejected, with another error than the one a session of the wrong role is rejected
\* with, and neither refusal changes the tables
C10_UnauthenticatedDistinct ==
  [][\A t \in BagToSet(timers) :
       /\ currentSession = Null /\ FiresGated(t)
            => /\ settled'.outcome = "rejected"
               /\ settled'.error # "Unauthorized"
               /\ assignments' = assignments /\ submissions' = submissions
       /\ currentSession # Null /\ FiresGated(t) /\ settled'.outcome = "rejected"
            => /\ settled'.error = "Unauthorized"
               /\ assignments' = assignments /\ submissions' = submissions]_vars

\* the password verifies against the stored hash of the user row in the browser layer
Verifies(password, user) ==
  /\ ~btoaThrows(password \o Salt)
  /\ verifyPassword(password, user.password_hash)

\* C11 as stated: login fails with the invalid-credentials error exactly when no user
\* has that email or the password does not verify; the failure leaves the session as
\* it was, and a success binds the session to the id and the role of that user
C11_InvalidCredentialsExactly ==
  [][/\ \A c \in Clients, cr \in Credentials :
          Login(c, cr[1], cr[2])
            => LET user == UserByEmail(cr[1]) IN
               IF user = NoUser \/ ~bcryptCompare(cr[2], user.password_hash)
               THEN response'.error = "Invalid credentials" /\ session' = session
               ELSE /\ response'.status = 200
                    /\ session'[c] = [userId |-> user.id, userRole |-> user.role]
     /\ \A t \in BagToSet(timers) :
          FireLogin(t)
            => LET user == executeSelectUser(t.email) IN
               IF user = NoUser \/ ~Verifies(t.password, user)
               THEN /\ settled'.outcome = "rejected"
                    /\ settled'.error = "Invalid credentials"
                    /\ currentSession' = currentSession
               ELSE /\ settled'.outcome = "resolved"
                    /\ currentSession'.userId = user.id
                    /\ currentSession'.user.role = user.role]_vars

\* C12 as stated: nothing a successful login returns holds the password_hash of the
\* user, neither the returned profile nor the session record returned with it
C12_NoHashReturned ==
  /\ response.op = "POST /api/auth/login" /\ response.status = 200
       => \A i \in DOMAIN response.rows : "password_hash" \notin DOMAIN response.rows[i]
  /\ settled.call = "login" /\ settled.outcome = "resolved"
       => \A i \in DOMAIN settled.rows :
            /\ settled.rows[i].user.password_hash = <<>>
            /\ settled.rows[i].session.user.password_hash = <<>>

\* C13: every logout succeeds and leaves no session; with no session before it, it
\* changes no session, so a second logout in a row yields the state of the first
\* (POST /api/auth/logout and APIService.logout)
C13_LogoutIdempotent ==
  [][/\ \A c \in Clients :
          Logout(c)
            => /\ response'.status = 200 /\ response'.error = ""
               /\ session'[c] = NoSession
               /\ session[c] = NoSession => session' = session
               /\ assignments' = assignments /\ submissions' = submissions
     /\ \A t \in BagToSet(timers) :
          FireLogout(t)
            => /\ settled'.outcome = "resolved"
               /\ currentSession' = Null
               /\ assignments' = assignments /\ submissions' = submissions]_vars

\* C13 witness: a client without a session was answered 200 by POST /api/auth/logout
C13_Witness ==
  /\ response.op = "POST /api/auth/logout"
  /\ response.status = 200
  /\ session["c1"] = NoSession

\* C14 as stated: a create of a professor with an empty title or a missing deadline
\* fails and adds no assignment (POST /api/assignments and APIService.createAssignment)
C14_MissingFieldsRefused ==
  [][/\ \A c \in Clients, b \in Bodies :
          /\ session[c].userRole = "professor"
          /\ b.title = "" \/ b.deadline = Missing
          /\ PostAssignment(c, b)
          => /\ response'.status = 400
             /\ response'.error = "Title and deadline are required"
             /\ assignments' = assignments
     /\ \A t \in BagToSet(timers) :
          /\ t.call = "createAssignment"
          /\ currentSession.user.role = "professor"
          /\ t.body.title = "" \/ t.body.deadline = Missing
          /\ FireCreateAssignment(t)
          => /\ settled'.outcome = "rejected"
             /\ assignments' = assignments]_vars

\* the users table of the program that runs
UsersTable == IF program = "browser" THEN tablesUsers ELSE users

\* the last row of a table
Last(rows) == rows[Len(rows)]

\* C15: in every state the created_by of every stored assignment is the id of a user
\* whose role is professor, and the row an accepted create adds carries the id of the
\* session user who issued it (server and browser layer)
C15_CreatedByIssuer ==
  /\ [](\A i \in DOMAIN assignments :
          /\ assignments[i].created_by \in DOMAIN UsersTable
          /\ UsersTable[assignments[i].created_by].role = "professor")
  /\ [][Len(assignments') > Len(assignments)
          => /\ assignments' = Append(assignments, Last(assignments'))
             /\ \/ \E c \in Clients :
                     /\ session[c].userId = Last(assignments').created_by
                     /\ \E b \in Bodies : PostAssignment(c, b)
                \/ \E t \in BagToSet(timers) :
                     /\ currentSession.userId = Last(assignments').created_by
                     /\ FireCreateAssignment(t)]_vars

\* C15 witness: an assignment created by prof2 is stored next to those of prof1
C15_Witness ==
  /\ \E i \in DOMAIN assignments : assignments[i].created_by = "prof2"
  /\ \E i \in DOMAIN assignments : assignments[i].created_by = "prof1"
  /\ response.op = "POST /api/assignments"
  /\ response.status = 201

\* table after is table before with row i given a new repo_link and submitted_at
OnlyLinkAndTime(before, after, i) ==
  /\ Len(after) = Len(before)
  /\ \A j \in DOMAIN before :
       IF j = i
       THEN after[j] = [before[j] EXCEPT !.repo_link = after[j].repo_link,
                                         !.submitted_at = after[j].submitted_at]
       ELSE after[j] = before[j]

\* table after is table before with one row added, of status 'submitted'
OneRowAdded(before, after) ==
  /\ Len(after) = Len(before) + 1
  /\ SubSeq(after, 1, Len(before)) = before
  /\ Last(after).status = "submitted"

\* the effect of an accepted create-or-update-submission for (a, s) on a table
UpsertFrame(before, after, a, s) ==
  IF RowsFor(before, a, s) # <<>>
  THEN \E i \in DOMAIN before :
         /\ before[i].assignment_id = a /\ before[i].student_id = s
         /\ OnlyLinkAndTime(before, after, i)
  ELSE OneRowAdded(before, after)

\* C16: an accepted resubmission changes the repo_link and submitted_at of the row of
\* that assignment and student and nothing else in the table; an accepted first
\* submission adds one row of status 'submitted'; every stored submission has status
\* 'submitted' in every state (server and browser layer)
C16_ResubmissionFrame ==
  /\ [](\A i \in DOMAIN submissions : submissions[i].status = "submitted")
  /\ [][/\ \A r \in BagToSet(inflight) :
             AcceptedWrite(r)
               => UpsertFrame(submissions, submissions', r.assignment_id, r.student_id)
        /\ \A t \in BagToSet(timers) :
             AcceptedCall(t)
               => UpsertFrame(submissions, submissions', t.assignmentId,
                              currentSession.userId)]_vars

\* C16 witness: the answer to stud1's accepted resubmission for assignment 2, whose
\* first submission is the second row of the table, next to the sample row
C16_Witness ==
  /\ program = "server"
  /\ writes = 2
  /\ assignments = sampleAssignments
  /\ Len(submissions) = 2
  /\ submissions[1] = sampleSubmissions[1]
  /\ submissions[2].assignment_id = 2
  /\ submissions[2].student_id = "stud1"
  /\ submissions[2].repo_link = GitlabX
  /\ response.op = "POST /api/submissions"
  /\ response.status = 200

\* C17 as stated: a create-or-update-submission of a student for an id that no stored
\* assignment has fails with the not-found error and stores no submission
\* (POST /api/submissions and APIService.createSubmission)
C17_UnknownAssignmentNotFound ==
  [][/\ \A c \in Clients, id \in AssignmentIds, l \in ServerLinks :
          /\ session[c].userRole = "student"
          /\ Stored(id) = <<>>
          /\ PostSubmissionLookup(c, id, l)
          => /\ response'.status = 404
             /\ inflight' = inflight /\ submissions' = submissions
     /\ \A t \in BagToSet(timers) :
          /\ t.call = "createSubmission"
          /\ currentSession.user.role = "student"
          /\ Stored(t.assignmentId) = <<>>
          /\ FireCreateSubmission(t)
          => /\ settled'.outcome = "rejected"
             /\ submissions' = submissions]_vars

\* rows are in the order of created_at, most recent first
NewestFirst(rows) ==
  \A i \in DOMAIN rows, j \in DOMAIN rows :
    i < j => rows[i].created_at >= rows[j].created_at

\* C20 as stated: the rows GET /api/assignments answers with and the rows
\* APIService.getAssignments resolves with are ordered by created_at, most recent first
C20_NewestFirst ==
  /\ response.op = "GET /api/assignments" /\ response.status = 200
       => NewestFirst(response.rows)
  /\ settled.call = "getAssignments" /\ settled.outcome = "resolved"
       => NewestFirst(settled.rows)

\* the events the push channel announces
Announced == {"assignment_created", "submission_created", "submission_updated"}

\* C18 as stated, for the browser layer: every record created or updated, with the event
\* of its kind (assignment_created, submission_created, submission_updated), is
\* eventually the detail of a 'realtime_update' event dispatched on window
C18_EveryChangeAnnounced ==
  \A k \in Announced :
    (lastChange.type = k /\ realtime # lastChange) ~> (realtime = lastChange)

\* C19: a listener that throws costs the operation nothing and the other listeners
\* nothing. An accepted create or submission resolves, stores its record and sets one
\* timeout for each listener of its event; the timeout of a callback that throws ends
\* with the timeouts of the other listeners still waiting, the tables and the settled
\* promise as they were; each of the other timeouts ends in the dispatch of the
\* 'realtime_update' event that carries the record
C19_ListenerFailureIsolated ==
  [][/\ \A t \in BagToSet(timers) :
          /\ FireCreateAssignment(t) /\ currentSession.user.role = "professor"
               => /\ settled'.outcome = "resolved"
                  /\ assignments' = Append(assignments, settled'.rows[1])
                  /\ Len(events') = Len(events) + Len(ListenersOf("assignment_created"))
          /\ FireCreateSubmission(t) /\ currentSession.user.role = "student"
               => /\ settled'.outcome = "resolved"
                  /\ \E i \in DOMAIN submissions' : submissions'[i] = settled'.rows[1]
                  /\ Len(events') = Len(events) + Len(ListenersOf(lastChange'.type))
     /\ ListenerTimeout
          => /\ assignments' = assignments /\ submissions' = submissions
             /\ settled' = settled
             /\ IF Head(events).callback = "throws"
                THEN events' = Tail(events)
                ELSE /\ Len(events') = Len(events)
                     /\ events'[Len(events')].stage = "broadcast"
                     /\ events'[Len(events')].data = Head(events).data
     /\ BroadcastTimeout
          => /\ realtime'.type = Head(events).type
             /\ realtime'.data = Head(events).data
             /\ events' = Tail(events)]_vars

\* C19 witness: prof1's createAssignment resolved, the callback that throws has run, and
\* the two other listeners of assignment_created have both had the record dispatched
C19_Witness ==
  /\ eventListeners = setupEventListeners \o pageListeners
  /\ settled.call = "createAssignment"
  /\ settled.outcome = "resolved"
  /\ lastChange.type = "assignment_created"
  /\ lastChange.data = settled.rows
  /\ realtime = lastChange
  /\ events = <<>>

\* rows are in the order of submitted_at, most recent first
LatestFirst(rows) ==
  \A i \in DOMAIN rows, j \in DOMAIN rows :
    i < j => rows[i].submitted_at >= rows[j].submitted_at

\* C21 as stated: the rows GET /api/submissions answers with and the rows
\* APIService.getSubmissions resolves with are ordered by submitted_at, most recent
\* first, a row refreshed by a resubmission before the rows submitted earlier
C21_LatestFirst ==
  /\ response.op = "GET /api/submissions" /\ response.status = 200
       => LatestFirst(response.rows)
  /\ settled.call = "getSubmissions" /\ settled.outcome = "resolved"
       => LatestFirst(settled.rows)

\* C22: a PUT /api/assignments/:id answered 200 leaves the table with the same rows in
\* the same places, the row of that id, created by the session user, with the title,
\* description, deadline and instructions of the body and its id, created_by and
\* created_at as before, every other row and the submissions table as before; a PUT
\* of a professor with an empty title or a missing deadline is answered 400 with the
\* validation error and changes no table
C22_UpdateFrame ==
  [][\A c \in Clients, id \in AssignmentIds, b \in Bodies :
       response'.op = "PUT /api/assignments/:id" /\ PutAssignment(c, id, b)
         => /\ response'.status = 200
                 => /\ Len(assignments') = Len(assignments)
                    /\ \E i \in DOMAIN assignments :
                         /\ assignments[i].id = id
                         /\ assignments[i].created_by = session[c].userId
                    /\ \A i \in DOMAIN assignments :
                         assignments'[i] =
                           IF assignments[i].id = id
                           THEN [assignments[i] EXCEPT
                                   !.title = b.title, !.description = b.description,
                                   !.deadline = b.deadline,
                                   !.instructions = b.instructions]
                           ELSE assignments[i]
                    /\ submissions' = submissions
            /\ session[c].userRole = "professor" /\ (b.title = "" \/ b.deadline = Missing)
                 => /\ response'.status = 400
                    /\ response'.error = "Title and deadline are required"
                    /\ assignments' = assignments /\ submissions' = submissions]_vars

\* C22 witness: prof1's PUT of assignment 1 was answered 200: its row holds the new
\* title and the creator and time of creation it had, and assignment 2 is as it was
C22_Witness ==
  /\ response.op = "PUT /api/assignments/:id"
  /\ response.status = 200
  /\ Len(assignments) = 2
  /\ assignments[1].id = 1
  /\ assignments[1].title = "T1"
  /\ assignments[1].created_by = "prof1"
  /\ assignments[2] = sampleAssignments[2]

\* C24 as stated: on the server the assignment_id of every stored submission is the id
\* of a stored assignment, in every state
C24_NoOrphanSubmission ==
  program = "server"
    => \A i \in DOMAIN submissions : Stored(submissions[i].assignment_id) # <<>>

\* the rows of table after that are new or differ from the row in their place before
Touched(before, after) ==
  {i \in DOMAIN after : i \notin DOMAIN before \/ after[i] # before[i]}

\* C25: the student_id of every stored submission is the id of a user whose role is
\* student; a request enters the write with the id of the session user who sent it; and
\* a write of student s inserts or changes rows of s only and removes none
\* (server and browser layer)
C25_OwnRowsOnly ==
  /\ [](\A i \in DOMAIN submissions :
          /\ submissions[i].student_id \in DOMAIN UsersTable
          /\ UsersTable[submissions[i].student_id].role = "student")
  /\ [][/\ BagCardinality(inflight') > BagCardinality(inflight)
             => \E c \in Clients :
                  /\ session[c].userRole = "student"
                  /\ \E r \in BagToSet(inflight') :
                       /\ r.student_id = session[c].userId
                       /\ inflight' = inflight (+) SetToBag({r})
        /\ \A r \in BagToSet(inflight) :
             PostSubmissionWrite(r)
               => /\ Len(submissions') >= Len(submissions)
                  /\ \A i \in Touched(submissions, submissions') :
                       /\ submissions'[i].student_id = r.student_id
                       /\ i \in DOMAIN submissions
                            => submissions[i].student_id = r.student_id
        /\ \A t \in BagToSet(timers) :
             FireCreateSubmission(t)
               => /\ Len(submissions') >= Len(submissions)
                  /\ \A i \in Touched(submissions, submissions') :
                       /\ submissions'[i].student_id = currentSession.userId
                       /\ i \in DOMAIN submissions
                            => submissions[i].student_id = currentSession.userId]_vars

\* C25 witness: stud2's first submission for assignment 1 was accepted on the server
\* and the row of stud1 for the same assignment is as it was
C25_Witness ==
  /\ program = "server"
  /\ Len(submissions) = 2
  /\ submissions[1] = sampleSubmissions[1]
  /\ submissions[2].assignment_id = 1
  /\ submissions[2].student_id = "stud2"
  /\ response.op = "POST /api/submissions"
  /\ response.status = 200
  /\ response.userId = "stud2"

\* the keys an index of this column of this table can hold
KeysOf(rows, column) == {rows[i][column] : i \in DOMAIN rows}

\* C27 as stated: in the browser layer each index agrees with its table, for every key
\* the index or the table holds
C27_IndexesAgree ==
  program = "browser"
    => /\ \A k \in DOMAIN indexes.assignments_created_by \cup KeysOf(assignments, "created_by") :
            MapGet(indexes.assignments_created_by, k)
              = SelectSeq(assignments, LAMBDA a : a.created_by = k)
       /\ \A k \in DOMAIN indexes.submissions_student_id \cup KeysOf(submissions, "student_id") :
            Deref(MapGet(indexes.submissions_student_id, k))
              = SelectSeq(submissions, LAMBDA r : r.student_id = k)
       /\ \A k \in DOMAIN indexes.submissions_assignment_id \cup KeysOf(submissions, "assignment_id") :
            Deref(MapGet(indexes.submissions_assignment_id, k))
              = SelectSeq(submissions, LAMBDA r : r.assignment_id = k)

\* C30 as stated: the two deadline helpers agree, formatDeadline gives 'Overdue' exactly
\* when isOverdue is true, for every deadline and instant rendered
C30_HelpersAgree ==
  rendered # NoRender => (rendered.text = <<"Overdue">> <=> rendered.overdue)

\* the call is issued and its timer has not fired
Pending(call) == \E t \in BagToSet(timers) : t.call = call

\* the timer of the call has fired and its promise was resolved or rejected
Settles(call) ==
  /\ timers = EmptyBag
  /\ settled.call = call
  /\ settled.outcome \in {"resolved", "rejected"}

\* C23 as stated: every APIService call that is issued eventually settles, its promise
\* resolves or rejects once its timer fires, whatever the session is by then
C23_EveryCallSettles == \A call \in ApiCalls : Pending(call) ~> Settles(call)

\* the same for the calls other than getSubmissions
C23_OthersSettle ==
  \A call \in ApiCalls \ {"getSubmissions"} : Pending(call) ~> Settles(call)

\* the response objects the registry holds, one entry for each
Registered == {sseClients[i].response : i \in DOMAIN sseClients}

\* C26 as stated: the registry of event-stream clients holds exactly the clients whose
\* connection is open, one entry each, whatever the instants of the connects
C26_RegistryIsOpenClients ==
  /\ Registered = OpenStreams
  /\ Len(sseClients) = Cardinality(connections)

C29_AppStateFollowsSession ==
  IF currentSession = Null
  THEN appState.currentRole = ""
  ELSE /\ appState.currentRole = currentSession.user.role
       /\ appState.currentUser.id = currentSession.userId

\* C29 witness: the login of stud1 resolved while a logout that was called is waiting
C29_Witness ==
  /\ settled.call = "login"
  /\ settled.outcome = "resolved"
  /\ currentSession.userId = "stud1"
  /\ appState.currentRole = "student"
  /\ \E t \in BagToSet(timers) : t.call = "logout"

====
